---- MODULE Spec2Model ----
(***************************************************************************)
(* daily_batch.py: the daily multi-model health batch.                     *)
(*                                                                         *)
(* One run of the script is a straight line: configuration, three probes   *)
(* (text, audio, image), each inside its own try/except, then the report   *)
(* is written to output/daily_model_health_<date>.json and printed.  The   *)
(* model follows the script statement group by statement group; the        *)
(* environment (credential, clock, upstream services, file system) is a    *)
(* nondeterministic choice at the place the script meets it.  The file     *)
(* system outlives a run, so the model lets the script be run again.       *)
(***************************************************************************)
EXTENDS Integers, Sequences, FiniteSets, TLC

\* ---------------------------------------------------------------- bounds
MaxRuns == 2        \* runs of the script in one behaviour
MaxOutLen == 301    \* length of the longest upstream output

\* ------------------------------------------------------ program constants
PreviewLen == 300   \* [:300] of the three success records
TextLimit == 2000   \* [:2000] of the fetched document

Models == {"gpt_oss_120b", "whisper_large_v2", "deepseek_ocr"}

text_sources == {"gutenberg/84-0.txt", "gutenberg/1342-0.txt", "gutenberg/11-0.txt"}
audio_sources == {"commons/En-us-hello.ogg", "commons/En-us-weather.ogg"}
image_sources == {"commons/ReceiptSwiss.jpg", "commons/Fax2.png"}

\* The calendar dates and wall-clock times a run can start at.
Dates == <<"2026-01-01", "2026-01-02">>
Times == {"09:00"}

\* os.getenv returns None for an unset variable.
None == "<None>"
Credentials == {None, "", "sk-key"}

\* The statements that talk to the network, and the timeout= argument each
\* one passes.  The two chat.completions.create calls pass none.
CallSites == {"text_fetch", "text_infer", "audio_download", "audio_post",
              "image_fetch", "image_infer"}
TimeoutSecs == [text_fetch |-> 20, audio_download |-> 30, audio_post |-> 60,
                image_fetch |-> 20]

TextPcs == {"text_choose", "text_fetch", "text_infer", "text_record"}
AudioPcs == {"audio_choose", "audio_download", "audio_post", "audio_record",
             "audio_remove"}
ImagePcs == {"image_choose", "image_fetch", "image_infer", "image_record"}

VARIABLES
    cred,          \* environment: SIMPLISMART_API_KEY of this run
    day,           \* environment: index into Dates of the current date
    clock,         \* environment: wall-clock time at start
    run,           \* number of the current run
    pc,            \* next statement group of the script
    exitCode,      \* -1 while running, 0 normal exit, 1 uncaught exception
    report,        \* the report dict
    url,           \* text_url / audio_url / image_url of the running probe
    text,          \* the truncated document handed to the text model
    resp,          \* the response object of the running probe
    inflight,      \* a network call has been issued and has not come back
    hung,          \* the upstream of the call in flight never answers
    audioFile,     \* sample_audio.ogg exists in BASE_DIR
    files,         \* output directory: path -> sequence of documents written
    \* history, not read by the script
    netCalls,      \* network calls issued by this run
    writes,        \* per model, assignments to report["results"][model]
    raised,        \* per model, an exception was raised inside its try block
    textStatus,    \* HTTP status of the document fetch (0: no answer yet)
    audioWritten,  \* this run's audio probe opened sample_audio.ogg for writing
    audioDeleted,  \* this run's audio probe removed sample_audio.ogg
    saved,         \* "no", or how this run wrote its report file: "created",
                   \* "overwrote"
    lastDone       \* per date, the report of the last run that completed

vars == <<cred, day, clock, run, pc, exitCode, report, url, text, resp,
          inflight, hung, audioFile, files, netCalls, writes, raised,
          textStatus, audioWritten, audioDeleted, saved, lastDone>>

env == <<cred, day, clock, run>>
locals == <<url, text, resp>>
net == <<inflight, hung>>
disk == <<audioFile, files, lastDone>>
hist == <<audioWritten, audioDeleted, saved>>

\* ------------------------------------------------------------- strings
\* A string is known by what it is a prefix of and by its length.
Str(of, len) == [of |-> of, len |-> len]
NoStr == Str("", 0)
Min(a, b) == IF a < b THEN a ELSE b

\* The slice forgotten: the whole string is kept.
Slice_NoCut(s, n) == s

\* s[:n]
Slice(s, n) == Str(s.of, Min(s.len, n))

\* ---------------------------------------------------------- upstreams
\* Body of the document a text source serves with the given status.
Document(u, status) ==
    IF status = 200 THEN Str(u, TextLimit + 1) ELSE Str("error page", 120)

\* The output an inference service gives for the request built from source
\* u, known by that source; one length per source, so that short, exactly
\* PreviewLen and longer outputs all occur.
OutputLen(u) ==
    CASE u = "gutenberg/84-0.txt" -> 1
      [] u = "gutenberg/1342-0.txt" -> PreviewLen
      [] u = "gutenberg/11-0.txt" -> MaxOutLen
      [] u = "commons/En-us-hello.ogg" -> PreviewLen - 1
      [] u = "commons/En-us-weather.ogg" -> MaxOutLen
      [] u = "commons/ReceiptSwiss.jpg" -> MaxOutLen
      [] u = "commons/Fax2.png" -> 0
Completion(u) == Str(<<"output for", u>>, OutputLen(u))

NoResp == [shape |-> "none", content |-> NoStr]

\* ------------------------------------------------------------ the report
NoReport == [date |-> "", run_time |-> "", results |-> <<>>]

Success(u, out) ==
    [status |-> "success", input |-> u, output_preview |-> Slice(out, PreviewLen)]
\* str(e): the text the raising library gave the exception.  The script only
\* stores it, so the model keeps one text for all of them.
StrOf(e) == "error message"

Failure(e) == [status |-> "failure", error |-> StrOf(e)]

\* report["results"][m] = entry
SetResult(rep, m, entry) == [rep EXCEPT !.results = (m :> entry) @@ @]

\* The check written as "is None": an empty credential passes.
Truthy_NoneOnly(k) == k # None

\* if not SIMPLISMART_API_KEY
Truthy(k) == k \notin {None, ""}

\* The file name without the date in it.
OutputPath_NoDate(d) == <<"output", "daily_model_health_", ".json">>

\* Lines 205-208: os.path.join(OUTPUT_DIR, f"daily_model_health_{today}.json")
OutputPath(d) == <<"output", "daily_model_health_", d, ".json">>

\* json.dump(report, f, indent=2)
JsonDump(rep) == <<"json", rep>>

\* with open(path, "w") as f: json.dump(doc, f)
WriteFile(fs, path, doc) == (path :> <<doc>>) @@ fs

Init ==
    /\ cred \in Credentials
    /\ day \in 1..Len(Dates)
    /\ clock \in Times
    /\ run = 1
    /\ pc = "start"
    /\ exitCode = -1
    /\ report = NoReport
    /\ url = ""
    /\ text = NoStr
    /\ resp = NoResp
    /\ inflight = FALSE
    /\ hung = FALSE
    /\ audioFile \in BOOLEAN
    /\ files = <<>>
    /\ netCalls = 0
    /\ writes = [m \in Models |-> 0]
    /\ raised = [m \in Models |-> FALSE]
    /\ textStatus = 0
    /\ audioWritten = FALSE
    /\ audioDeleted = FALSE
    /\ saved = "no"
    /\ lastDone = <<>>


\* --------------------------------------------------------- configuration
\* An exception no try block encloses: traceback, exit status 1.
Abort ==
    /\ pc' = "aborted"
    /\ exitCode' = 1

\* Lines 40-61: credential check, os.makedirs, today, run_time, report.
Config ==
    /\ pc = "start"
    /\ IF ~Truthy(cred)
       THEN Abort /\ UNCHANGED report
       ELSE \E made \in BOOLEAN :
              IF made
              THEN /\ report' = [date |-> Dates[day], run_time |-> clock,
                                 results |-> <<>>]
                   /\ pc' = "text_choose"
                   /\ UNCHANGED exitCode
              ELSE Abort /\ UNCHANGED report
    /\ UNCHANGED <<env, locals, net, disk, netCalls, writes, raised,
                   textStatus, hist>>

\* The names a probe binds (its url, text, resp) are not read once control
\* has left its try statement: the model drops them there.
Forget ==
    /\ url' = ""
    /\ text' = NoStr
    /\ resp' = NoResp

\* --------------------------------------------------------- except blocks
\* An except block that swallows the exception and records nothing.
Except_NoRecord(m, e, next) ==
    /\ UNCHANGED <<report, writes>>
    /\ pc' = next
    /\ inflight' = FALSE
    /\ hung' = FALSE
    /\ Forget

\* except Exception as e: report["results"][m] = {"status": "failure", ...}
\* and control falls through to the statement after the try.
Except(m, e, next) ==
    /\ report' = SetResult(report, m, Failure(e))
    /\ writes' = [writes EXCEPT ![m] = @ + 1]
    /\ pc' = next
    /\ inflight' = FALSE
    /\ hung' = FALSE
    /\ Forget

\* The text probe's except block storing under the audio probe's key.
TextExcept_WrongKey(e) == Except("whisper_large_v2", e, "audio_choose")

\* Lines 97-101, 150-154, 196-200
TextExcept(e) == Except("gpt_oss_120b", e, "audio_choose")
AudioExcept(e) == Except("whisper_large_v2", e, "image_choose")
ImageExcept(e) == Except("deepseek_ocr", e, "save")

\* An exception raised at the current statement goes to the except block of
\* the try that encloses it.
ProbeAt(p) ==
    CASE p \in TextPcs -> "gpt_oss_120b"
      [] p \in AudioPcs -> "whisper_large_v2"
      [] p \in ImagePcs -> "deepseek_ocr"

Raise(e) ==
    /\ raised' = [raised EXCEPT ![ProbeAt(pc)] = TRUE]
    /\ CASE pc \in TextPcs -> TextExcept(e)
         [] pc \in AudioPcs -> AudioExcept(e)
         [] pc \in ImagePcs -> ImageExcept(e)

\* A success record is stored and control moves on.
Record(m, entry, next) ==
    /\ report' = SetResult(report, m, entry)
    /\ writes' = [writes EXCEPT ![m] = @ + 1]
    /\ pc' = next
    /\ UNCHANGED <<raised, net>>

\* ------------------------------------------------------------ the network
\* The request of the call at pc leaves the process.
SendRequest ==
    /\ pc \in CallSites
    /\ ~inflight
    /\ inflight' = TRUE
    /\ hung' \in BOOLEAN
    /\ netCalls' = netCalls + 1
    /\ UNCHANGED <<env, pc, exitCode, report, locals, disk, writes, raised,
                   textStatus, hist>>

\* The streamed download has opened sample_audio.ogg before the error, or not.
Opened == IF pc = "audio_download" THEN BOOLEAN ELSE {FALSE}

\* timeout=N expires on a call whose upstream does not answer.
CallTimesOut ==
    /\ inflight
    /\ hung
    /\ pc \in DOMAIN TimeoutSecs
    /\ \E opened \in Opened :
         /\ audioFile' = (audioFile \/ opened)
         /\ audioWritten' = (audioWritten \/ opened)
    /\ Raise("ReadTimeout")
    /\ UNCHANGED <<env, exitCode, files, lastDone, netCalls, textStatus,
                   audioDeleted, saved>>

\* The connection fails (DNS, reset, TLS): the call raises.
CallFails ==
    /\ inflight
    /\ ~hung
    /\ pc \in CallSites
    /\ \E opened \in Opened :
         /\ audioFile' = (audioFile \/ opened)
         /\ audioWritten' = (audioWritten \/ opened)
    /\ Raise("ConnectionError")
    /\ UNCHANGED <<env, exitCode, files, lastDone, netCalls, textStatus,
                   audioDeleted, saved>>

\* ------------------------------------------------------------- text probe
\* Line 73: text_url = random.choice(text_sources)
TextChoose ==
    /\ pc = "text_choose"
    /\ \E u \in text_sources : url' = u
    /\ pc' = "text_fetch"
    /\ UNCHANGED <<env, exitCode, report, text, resp, net, disk, netCalls,
                   writes, raised, textStatus, hist>>

\* Line 74: requests.get(text_url, timeout=20).text[:2000]; the status of
\* the response is not looked at.
TextFetchReturns ==
    /\ pc = "text_fetch"
    /\ inflight
    /\ ~hung
    /\ \E status \in {200, 500} :
         /\ text' = Slice(Document(url, status), TextLimit)
         /\ textStatus' = status
    /\ pc' = "text_infer"
    /\ inflight' = FALSE
    /\ UNCHANGED <<env, exitCode, report, url, resp, hung, disk, netCalls,
                   writes, raised, hist>>

\* Lines 76-89: client.chat.completions.create(...) answers.
TextInferReturns ==
    /\ pc = "text_infer"
    /\ inflight
    /\ ~hung
    /\ \E shape \in {"choices", "no content"} :
         resp' = [shape |-> shape, content |-> Completion(url)]
    /\ pc' = "text_record"
    /\ inflight' = FALSE
    /\ UNCHANGED <<env, exitCode, report, url, text, hung, disk, netCalls,
                   writes, raised, textStatus, hist>>

\* Lines 91-95: resp.choices[0].message.content[:300] raises on a response
\* of another shape, before the assignment.
TextRecord ==
    /\ pc = "text_record"
    /\ IF resp.shape = "choices"
       THEN /\ Record("gpt_oss_120b", Success(url, resp.content), "audio_choose")
            /\ Forget
       ELSE Raise("TypeError")
    /\ UNCHANGED <<env, exitCode, disk, netCalls, textStatus, hist>>

\* ------------------------------------------------------------ audio probe
\* Lines 112-113
AudioChoose ==
    /\ pc = "audio_choose"
    /\ \E u \in audio_sources : url' = u
    /\ pc' = "audio_download"
    /\ UNCHANGED <<env, exitCode, report, text, resp, net, disk, netCalls,
                   writes, raised, textStatus, hist>>

\* Lines 115-118: the body is streamed into sample_audio.ogg; open() can fail.
AudioDownloadReturns ==
    /\ pc = "audio_download"
    /\ inflight
    /\ ~hung
    /\ \E opened \in BOOLEAN :
         IF opened
         THEN /\ audioFile' = TRUE
              /\ audioWritten' = TRUE
              /\ pc' = "audio_post"
              /\ inflight' = FALSE
              /\ UNCHANGED <<report, writes, raised, hung, locals>>
         ELSE /\ Raise("PermissionError")
              /\ UNCHANGED <<audioFile, audioWritten>>
    /\ UNCHANGED <<env, exitCode, files, lastDone, netCalls, textStatus,
                   audioDeleted, saved>>

\* Lines 120-140: requests.post(..., timeout=60).json(); .json() raises on a
\* body that is not JSON.
AudioPostReturns ==
    /\ pc = "audio_post"
    /\ inflight
    /\ ~hung
    /\ \E json \in BOOLEAN :
         IF json
         THEN /\ resp' = [shape |-> "json", content |-> Completion(url)]
              /\ pc' = "audio_record"
              /\ inflight' = FALSE
              /\ UNCHANGED <<report, writes, raised, hung, url, text>>
         ELSE Raise("JSONDecodeError")
    /\ UNCHANGED <<env, exitCode, disk, netCalls, textStatus, hist>>

\* Lines 142-146: str(resp)[:300] never raises.
AudioRecord ==
    /\ pc = "audio_record"
    /\ Record("whisper_large_v2", Success(url, resp.content), "audio_remove")
    /\ UNCHANGED <<env, exitCode, locals, disk, netCalls, textStatus,
                   hist>>

\* The os.remove line left out: the probe moves on and the file stays.
AudioRemove_Skipped ==
    /\ pc = "audio_remove"
    /\ pc' = "image_choose"
    /\ Forget
    /\ UNCHANGED <<env, exitCode, report, writes, raised, net, disk, netCalls,
                   textStatus, hist>>

\* Line 148: os.remove(audio_path), still inside the try.
AudioRemove ==
    /\ pc = "audio_remove"
    /\ \E removed \in BOOLEAN :
         IF removed
         THEN /\ audioFile' = FALSE
              /\ audioDeleted' = TRUE
              /\ pc' = "image_choose"
              /\ Forget
              /\ UNCHANGED <<report, writes, raised, net>>
         ELSE /\ Raise("PermissionError")
              /\ UNCHANGED <<audioFile, audioDeleted>>
    /\ UNCHANGED <<env, exitCode, files, lastDone, netCalls, textStatus,
                   audioWritten, saved>>

\* ------------------------------------------------------------ image probe
\* Line 165
ImageChoose ==
    /\ pc = "image_choose"
    /\ \E u \in image_sources : url' = u
    /\ pc' = "image_fetch"
    /\ UNCHANGED <<env, exitCode, report, text, resp, net, disk, netCalls,
                   writes, raised, textStatus, hist>>

\* Lines 166-167: requests.get(image_url, timeout=20).content, base64.
ImageFetchReturns ==
    /\ pc = "image_fetch"
    /\ inflight
    /\ ~hung
    /\ pc' = "image_infer"
    /\ inflight' = FALSE
    /\ UNCHANGED <<env, exitCode, report, locals, hung, disk, netCalls,
                   writes, raised, textStatus, hist>>

\* Lines 169-188
ImageInferReturns ==
    /\ pc = "image_infer"
    /\ inflight
    /\ ~hung
    /\ \E shape \in {"choices", "no content"} :
         resp' = [shape |-> shape, content |-> Completion(url)]
    /\ pc' = "image_record"
    /\ inflight' = FALSE
    /\ UNCHANGED <<env, exitCode, report, url, text, hung, disk, netCalls,
                   writes, raised, textStatus, hist>>

\* Lines 190-194
ImageRecord ==
    /\ pc = "image_record"
    /\ IF resp.shape = "choices"
       THEN /\ Record("deepseek_ocr", Success(url, resp.content), "save")
            /\ Forget
       ELSE Raise("TypeError")
    /\ UNCHANGED <<env, exitCode, disk, netCalls, textStatus, hist>>

\* ------------------------------------------------------- report assembler
\* Lines 205-213: open(output_path, "w"), json.dump, print; open() can fail.
Save ==
    /\ pc = "save"
    /\ \E opened \in BOOLEAN :
         IF opened
         THEN /\ files' = WriteFile(files, OutputPath(report.date), JsonDump(report))
              /\ saved' = IF OutputPath(report.date) \in DOMAIN files
                           THEN "overwrote" ELSE "created"
              /\ lastDone' = (Dates[day] :> report) @@ lastDone
              /\ pc' = "done"
              /\ exitCode' = 0
         ELSE Abort /\ UNCHANGED <<files, saved, lastDone>>
    /\ UNCHANGED <<env, report, locals, net, audioFile, netCalls, writes,
                   raised, textStatus, audioWritten, audioDeleted>>

\* ---------------------------------------------------------------- re-run
\* The script is started again after the previous process has exited; the
\* clock does not go back and the file system is what the last run left.
NewRun ==
    /\ pc \in {"done", "aborted"}
    /\ run < MaxRuns
    /\ run' = run + 1
    /\ cred' \in Credentials
    /\ day' \in day..Len(Dates)
    /\ clock' \in Times
    /\ pc' = "start"
    /\ exitCode' = -1
    /\ report' = NoReport
    /\ Forget
    /\ netCalls' = 0
    /\ writes' = [m \in Models |-> 0]
    /\ raised' = [m \in Models |-> FALSE]
    /\ textStatus' = 0
    /\ audioWritten' = FALSE
    /\ audioDeleted' = FALSE
    /\ saved' = "no"
    /\ UNCHANGED <<net, disk>>

\* One step of the running script.
Step ==
    \/ Config
    \/ SendRequest
    \/ CallTimesOut
    \/ CallFails
    \/ TextChoose
    \/ TextFetchReturns
    \/ TextInferReturns
    \/ TextRecord
    \/ AudioChoose
    \/ AudioDownloadReturns
    \/ AudioPostReturns
    \/ AudioRecord
    \/ AudioRemove
    \/ ImageChoose
    \/ ImageFetchReturns
    \/ ImageInferReturns
    \/ ImageRecord
    \/ Save

Next ==
    \/ Step
    \/ NewRun

Spec == Init /\ [][Next]_vars

\* ==================================================================
\* Properties
\* ==================================================================
results == report.results
Status(m) == results[m].status
Finished == pc \in {"save", "done"}
\* The credential is neither unset nor empty.
CredentialGiven == cred # None /\ cred # ""

TypeOK ==
    /\ cred \in Credentials
    /\ day \in 1..Len(Dates)
    /\ run \in 1..MaxRuns
    /\ exitCode \in {-1, 0, 1}
    /\ DOMAIN results \subseteq Models
    /\ \A m \in DOMAIN results : Status(m) \in {"success", "failure"}
    /\ inflight => pc \in CallSites
    /\ hung => inflight
    /\ netCalls \in 0..Cardinality(CallSites)

\* C1: when the report is assembled (the script has reached the save step
\* with its credential set), report["results"] has exactly the three keys
\* gpt_oss_120b, whisper_large_v2 and deepseek_ocr, whichever probes failed.
C1_ThreeEntries == Finished => DOMAIN results = Models

\* C1 witness: a completed run in which all three probes failed.
C1_AllThreeFailed ==
    /\ pc = "done"
    /\ \A m \in Models : m \in DOMAIN results /\ Status(m) = "failure"

\* C2: with the credential unset or empty the run aborts in the
\* configuration step: no network call is issued, the report has no entry,
\* and this run writes no report file.
C2_NoCredentialNoWork ==
    ~CredentialGiven =>
        /\ pc \in {"start", "aborted"}
        /\ netCalls = 0
        /\ ~inflight
        /\ report = NoReport
        /\ saved = "no"
        /\ pc = "aborted" => exitCode = 1

\* C2 witness: a second run, started with an empty credential after a run
\* that left a report file, has aborted.
C2_AbortedWithoutCredential ==
    /\ pc = "aborted"
    /\ cred = ""
    /\ run > 1
    /\ files # <<>>

C4_Http500IsFailure ==
    (Finished /\ textStatus = 500) =>
        /\ DOMAIN results = Models
        /\ Status("gpt_oss_120b") = "failure"
        /\ results["gpt_oss_120b"].error # ""

\* C5: during a run each key of report["results"] is assigned at most once,
\* so an entry, once stored, is never replaced.
C5_AssignedOnce == \A m \in Models : writes[m] <= 1

\* C6: a run whose credential is set never aborts and never stops short of
\* the end: it is either finished, with the report file written and exit
\* code 0, or it can take a step.
C6_RunCompletes ==
    CredentialGiven =>
        /\ pc # "aborted"
        /\ pc = "done" => (saved # "no" /\ exitCode = 0)
        /\ pc # "done" => ENABLED Step

\* C7: every network call in flight carries a timeout, and a call whose
\* upstream never answers is ended by it.
C7_HungCallTimesOut ==
    inflight =>
        /\ pc \in DOMAIN TimeoutSecs
        /\ hung => ENABLED CallTimesOut

\* C8: an output_preview field of a report entry is at most 300 characters
\* long, for each of the three probes and whatever the upstream output's
\* length.
C8_PreviewBounded ==
    \A m \in DOMAIN results :
        "output_preview" \in DOMAIN results[m] =>
            results[m].output_preview.len <= PreviewLen

\* C8 witness: all three probes succeeded on outputs longer than 300
\* characters and each preview is exactly 300 long.
C8_LongOutputsCut ==
    /\ pc = "done"
    /\ \A m \in Models :
         /\ m \in DOMAIN results
         /\ Status(m) = "success"
         /\ OutputLen(results[m].input) > PreviewLen
         /\ results[m].output_preview.len = PreviewLen

\* C9: the output directory holds exactly one file per date on which a run
\* completed, named after that date, and its content is the single document
\* of the last run completed on that date; runs on different dates have
\* different files.
C9_OneFilePerDate ==
    /\ DOMAIN files = {OutputPath(d) : d \in DOMAIN lastDone}
    /\ Cardinality(DOMAIN files) = Cardinality(DOMAIN lastDone)
    /\ \A d \in DOMAIN lastDone :
         files[OutputPath(d)] = <<JsonDump(lastDone[d])>>

\* C9 witness: a run has overwritten the file an earlier run on the same
\* date had left, and the file is this run's report.
C9_Overwritten ==
    /\ pc = "done"
    /\ saved = "overwrote"
    /\ Cardinality(DOMAIN files) = 1
    /\ files[OutputPath(Dates[day])] = <<JsonDump(report)>>

\* C10: at the end of a run the audio probe has deleted sample_audio.ogg
\* exactly when the whisper_large_v2 entry is a success; a probe that wrote
\* the file and then failed has left it on disk.
C10_TempFileReleasedOnSuccessOnly ==
    Finished =>
        /\ audioDeleted <=> Status("whisper_large_v2") = "success"
        /\ audioDeleted => ~audioFile
        /\ (audioWritten /\ Status("whisper_large_v2") = "failure") => audioFile

\* C10 witness: the audio probe wrote the file, failed afterwards, and the
\* file is still there when the run ends.
C10_LeakedOnFailure ==
    /\ pc = "done"
    /\ audioWritten
    /\ ~audioDeleted
    /\ Status("whisper_large_v2") = "failure"
    /\ audioFile

====
